---- MODULE Spec2Model ----
(***************************************************************************)
(* WebRTC signaling: the relay (api/sockets/videoCallSocketHandler.js) and *)
(* the participant's call state (client context provider, part_001).       *)
(*                                                                         *)
(* SpecRelay  : the relay alone, fed arbitrary events by its connections;  *)
(*              every handler's emissions are recorded in relayOut.        *)
(* SpecClient : one participant, fed arbitrary events by its socket, its   *)
(*              peers and its user.                                        *)
(* Spec       : relay + participants + the ordered transport between them. *)
(* SpecHappy  : the runs of Spec in which a call is placed and accepted    *)
(*              and nothing is dropped, left or failed; weakly fair.       *)
(* SpecHangup : SpecHappy plus a local hangup by either party once both    *)
(*              are active.                                                *)
(***************************************************************************)
EXTENDS Integers, Sequences, FiniteSets, TLC

(* ------------------------------ bounds -------------------------------- *)
\* socket ids are 1..NumIds; 0 stands for the empty string '' (useState(''))
NumIds == 3
\* messages in flight per direction and per participant
MaxQueue == 2
\* negotiation handles (Peer objects) alive at once in one participant
MaxPeers == 2
\* Spec: transports lost, and Peer objects made, over a run of the whole system
MaxDrops == 1
MaxCalls == 2

Ids == 1..NumIds
NoId == 0
Clients == {"A", "B"}
Names == {"Anonymous", "Ann"}

\* an opaque negotiation blob, identified by the handle that produced it
NoSig == [by |-> "", k |-> 0]
Signals == [by : Clients, k : 1..MaxPeers]
\* the blobs the relay is fed when it is checked alone
RelaySignals == {[by |-> "A", k |-> 1], [by |-> "B", k |-> 1]}

VARIABLES
  \* ---- relay ----
  sockets,         \* io.sockets.sockets: ids of the live connections
  connectedUsers,  \* keys of the connectedUsers Map
  relayIn,         \* SpecRelay: the event the relay handled last
  relayOut,        \* SpecRelay: what that handler emitted, in order
  \* ---- participants ----
  cl,              \* per participant: the ContextProvider's state and refs
  inbox,           \* per participant: relay -> participant messages in flight
  used             \* Spec: transports lost and Peer objects made so far

relayVars == <<sockets, connectedUsers>>
relayObs == <<relayIn, relayOut>>
netVars == <<cl, inbox, used>>
vars == <<sockets, connectedUsers, relayIn, relayOut, cl, inbox, used>>

(* ------------------------- messages on the wire ------------------------ *)
\* one record shape for every event; unused fields hold NoId / NoSig / ""
Msg(ev, to, signal, from, name) ==
  [ev |-> ev, to |-> to, signal |-> signal, from |-> from, name |-> name]

\* relay -> participant
MeMsg(id) == Msg("me", id, NoSig, NoId, "")
CallErrorMsg(to) == Msg("callError", to, NoSig, NoId, "")
\* callEnded carries disconnectedUserId in the from field
CallEndedMsg(to, id) == Msg("callEnded", to, NoSig, id, "")
OfferMsg(to, signal, from, name) == Msg("callUser", to, signal, from, name)
CallAcceptedMsg(to, signal) == Msg("callAccepted", to, signal, NoId, "")

\* participant -> relay: userToCall / to is the to field
CallUserReq(userToCall, signalData, from, name) ==
  Msg("callUser", userToCall, signalData, from, name)
AnswerCallReq(to, signal) == Msg("answerCall", to, signal, NoId, "")

\* the ids of S in increasing order, as a sequence
RECURSIVE SetToSeq(_)
SetToSeq(S) ==
  IF S = {} THEN <<>>
  ELSE LET m == CHOOSE x \in S : \A y \in S : x <= y
       IN <<m>> \o SetToSeq(S \ {m})

(* ------------------------------- relay --------------------------------- *)
\* io.on("connection"): connectedUsers.set(socket.id, ...); socket.emit("me")
ConnectedUsersAfterConnection(id) == connectedUsers \cup {id}
EmitOnConnection(id) == <<MeMsg(id)>>

\* mutant: the disconnect handler forgets connectedUsers.delete
ConnectedUsersAfterDisconnect_NoDelete(id) == connectedUsers

\* socket.on("disconnect"): connectedUsers.delete(socket.id)
ConnectedUsersAfterDisconnect(id) == connectedUsers \ {id}

\* mutant: the notice goes out with socket.emit, to the leaving socket only
EmitOnDisconnect_ToSelf(id) == <<CallEndedMsg(id, id)>>

\* socket.broadcast.emit("callEnded", {disconnectedUserId: socket.id}):
\* every socket of the namespace except the sender (already removed)
EmitOnDisconnect(id) ==
  LET rest == SetToSeq(sockets \ {id})
  IN [i \in 1..Len(rest) |-> CallEndedMsg(rest[i], id)]

\* mutant: no liveness check before forwarding the offer
EmitOnCallUser_NoCheck(sender, data) ==
  <<OfferMsg(data.to, data.signal, data.from, data.name)>>

\* mutant: the relay stamps the offer with the sending socket's id
EmitOnCallUser_StampFrom(sender, data) ==
  IF data.to \notin sockets
  THEN <<CallErrorMsg(sender)>>
  ELSE <<OfferMsg(data.to, data.signal, sender, data.name)>>

\* socket.on("callUser")
EmitOnCallUser(sender, data) ==
  IF data.to \notin sockets
  THEN <<CallErrorMsg(sender)>>
  ELSE <<OfferMsg(data.to, data.signal, data.from, data.name)>>

\* mutant: the callError of a failed answer goes to the target, not the sender
EmitOnAnswerCall_ErrorToTarget(sender, data) ==
  IF data.to \notin sockets
  THEN <<CallErrorMsg(data.to)>>
  ELSE <<CallAcceptedMsg(data.to, data.signal)>>

\* socket.on("answerCall")
EmitOnAnswerCall(sender, data) ==
  IF data.to \notin sockets
  THEN <<CallErrorMsg(sender)>>
  ELSE <<CallAcceptedMsg(data.to, data.signal)>>

\* the state of the relay after a connection with identifier id is accepted
RelayConnection(id) ==
  /\ id \notin sockets
  /\ sockets' = sockets \cup {id}
  /\ connectedUsers' = ConnectedUsersAfterConnection(id)

\* mutant: the disconnect handler runs while the socket is still registered
\* in io.sockets.sockets
RelayDisconnect_StillRegistered(id) ==
  /\ id \in sockets
  /\ sockets' = sockets
  /\ connectedUsers' = ConnectedUsersAfterDisconnect(id)

\* the state of the relay after connection id is lost
RelayDisconnect(id) ==
  /\ id \in sockets
  /\ sockets' = sockets \ {id}
  /\ connectedUsers' = ConnectedUsersAfterDisconnect(id)

(* ----------------------------- participant ---------------------------- *)
\* call = {} and an incoming call {isReceivingCall: true, from, name, signal}
NoCall == [isReceivingCall |-> FALSE, from |-> NoId, name |-> "", signal |-> NoSig]
IncomingCall(from, name, signal) ==
  [isReceivingCall |-> TRUE, from |-> from, name |-> name, signal |-> signal]

\* a live Peer (simple-peer) object and the values its event handlers closed over:
\*   init      : created with initiator: true
\*   to        : callUser's id argument / answerCall's call.from
\*   from      : the me the callUser closure saw
\*   signalled : its 'signal' event has fired (trickle: false, so it fires once)
\*   remote    : the blob given to peer.signal() last, NoSig when none
\*   offer     : the blob answerCall gave to peer.signal(), NoSig for an initiator
\* Its handlers also closed over the stream of that render; the stream object
\* is never replaced here (closeVideo is not modelled), so that stream is the
\* current one.  A destroyed Peer emits nothing more and is forgotten.
NewPeer(init, to, from, remote) ==
  [init |-> init, to |-> to, from |-> from, signalled |-> FALSE, remote |-> remote,
   offer |-> remote]

\* useState / useRef initial values of the ContextProvider; sid is socket.id,
\* peers the live Peer objects in the order they were made, connectionRef the
\* index in peers of connectionRef.current (0 for null), outbox the packets
\* socket.emit has written and the relay has not yet read
InitClient ==
  [sid |-> NoId, me |-> NoId,
   callAccepted |-> FALSE, callEnded |-> FALSE, isCalling |-> FALSE,
   call |-> NoCall, stream |-> "null", userStream |-> "null",
   connectionRef |-> 0, peers |-> <<>>,
   callAcceptedRef |-> FALSE, callRef |-> [isReceivingCall |-> FALSE],
   userStreamRef |-> "null",
   outbox |-> <<>>]

\* the default display name: name || 'Anonymous' with name = ''
DefaultName == "Anonymous"

\* stream.getTracks().forEach(track => track.stop()) on a non-null stream
StopTracks(st) ==
  IF st = "null" THEN "null" ELSE IF st = "live" THEN "stopped" ELSE "restopped"

\* peers without its k-th Peer, and where connectionRef.current is afterwards
WithoutPeer(peers, k) ==
  [i \in 1..(Len(peers) - 1) |-> IF i < k THEN peers[i] ELSE peers[i + 1]]
RefWithoutPeer(ref, k) == IF ref = k THEN 0 ELSE IF ref > k THEN ref - 1 ELSE ref

\* connectionRef.current.destroy(); connectionRef.current = null
DestroyCurrent(c) ==
  IF c.connectionRef # 0
  THEN [c EXCEPT !.peers = WithoutPeer(@, c.connectionRef), !.connectionRef = 0]
  ELSE c

\* mutant: teardown forgets setCallAccepted(false)
HandleCallEnd_KeepAccepted(c, stopLocal) ==
  [DestroyCurrent(c) EXCEPT
     !.callEnded = TRUE,
     !.isCalling = FALSE,
     !.stream = IF stopLocal THEN StopTracks(@) ELSE @,
     !.userStream = "null",
     !.call = NoCall]

\* handleCallEnd; stopLocal says whether the stream this closure of
\* handleCallEnd saw is the current stream (and not the null of the first render)
HandleCallEnd(c, stopLocal) ==
  [DestroyCurrent(c) EXCEPT
     !.callEnded = TRUE,
     !.callAccepted = FALSE,
     !.isCalling = FALSE,
     !.stream = IF stopLocal THEN StopTracks(@) ELSE @,
     !.userStream = "null",
     !.call = NoCall]

\* the three ref-mirroring effects, run after a render has been committed;
\* of callRef.current only isReceivingCall is ever read
FlushEffects(c) ==
  [c EXCEPT !.callAcceptedRef = c.callAccepted,
            !.callRef = [isReceivingCall |-> c.call.isReceivingCall],
            !.userStreamRef = c.userStream]

\* socket.on('connect'): setMe(socket.id)
OnConnect(c, id) == [c EXCEPT !.sid = id, !.me = id]

\* the transport is lost: socket.id is gone, packets in flight are lost
OnDisconnect(c) == [c EXCEPT !.sid = NoId, !.outbox = <<>>]

\* socket.on('me')
OnMe(c, m) == IF m.to # NoId THEN [c EXCEPT !.me = m.to] ELSE c

\* mutant: an incoming offer is answered at once, without the user
OnCallUser_AutoAnswer(c, m) ==
  [c EXCEPT !.call = IncomingCall(m.from, m.name, m.signal),
            !.callAccepted = TRUE,
            !.peers = Append(@, NewPeer(FALSE, m.from, NoId, m.signal)),
            !.connectionRef = Len(c.peers) + 1]

\* socket.on('callUser'): the incoming offer is recorded, nothing else
OnCallUser(c, m) == [c EXCEPT !.call = IncomingCall(m.from, m.name, m.signal)]

\* socket.on('callAccepted')
OnCallAccepted(c, m) ==
  [c EXCEPT !.callAccepted = TRUE,
            !.peers = IF c.connectionRef # 0
                      THEN [@ EXCEPT ![c.connectionRef].remote = m.signal] ELSE @]

\* the isInCall test of socket.on('callEnded')
IsInCall(c) ==
  \/ c.callAcceptedRef
  \/ c.callRef.isReceivingCall
  \/ c.connectionRef # 0
  \/ c.userStreamRef # "null"

\* mutant: the handler tears down without the isInCall test
OnCallEnded_NoFilter(c, m) == HandleCallEnd(c, FALSE)

\* socket.on('callEnded'); its handleCallEnd is the one of the first render,
\* which closed over stream = null and userStream = null
OnCallEnded(c, m) == IF IsInCall(c) THEN HandleCallEnd(c, FALSE) ELSE c

\* socket.on('callError')
OnCallError(c, m) == [c EXCEPT !.isCalling = FALSE]

\* a new Peer becomes connectionRef.current; the one it replaces is not destroyed
WithNewPeer(c, pr) ==
  [c EXCEPT !.peers = Append(@, pr), !.connectionRef = Len(c.peers) + 1]

\* mutant: callUser without the id === me test
CallUser_NoSelfCheck(c, id) ==
  IF id = NoId THEN c
  ELSE IF c.stream = "null" THEN c
  ELSE [WithNewPeer(c, NewPeer(TRUE, id, c.me, NoSig)) EXCEPT
          !.isCalling = TRUE, !.callEnded = FALSE]

\* callUser(id)
CallUser(c, id) ==
  IF id = NoId THEN c
  ELSE IF c.stream = "null" THEN c
  ELSE IF id = c.me THEN c
  ELSE [WithNewPeer(c, NewPeer(TRUE, id, c.me, NoSig)) EXCEPT
          !.isCalling = TRUE, !.callEnded = FALSE]

\* mutant: answerCall forgets setIsCalling(false)
AnswerCall_KeepCalling(c) ==
  IF c.stream = "null" THEN c
  ELSE IF c.call.signal = NoSig THEN c
  ELSE [WithNewPeer(c, NewPeer(FALSE, c.call.from, NoId, c.call.signal)) EXCEPT
          !.callAccepted = TRUE]

\* mutant: answerCall without the !stream test
AnswerCall_NoStreamCheck(c) ==
  IF c.call.signal = NoSig THEN c
  ELSE [WithNewPeer(c, NewPeer(FALSE, c.call.from, NoId, c.call.signal)) EXCEPT
          !.callAccepted = TRUE, !.isCalling = FALSE]

\* mutant: the answering Peer targets the callee itself instead of call.from
AnswerCall_ToSelf(c) ==
  IF c.stream = "null" THEN c
  ELSE IF c.call.signal = NoSig THEN c
  ELSE [WithNewPeer(c, NewPeer(FALSE, c.me, NoId, c.call.signal)) EXCEPT
          !.callAccepted = TRUE, !.isCalling = FALSE]

\* answerCall()
AnswerCall(c) ==
  IF c.stream = "null" THEN c
  ELSE IF c.call.signal = NoSig THEN c
  ELSE [WithNewPeer(c, NewPeer(FALSE, c.call.from, NoId, c.call.signal)) EXCEPT
          !.callAccepted = TRUE, !.isCalling = FALSE]

\* mutant: leaveCall only destroys the handle and flags the call ended
LeaveCall_DestroyOnly(c) == [DestroyCurrent(c) EXCEPT !.callEnded = TRUE]

\* leaveCall(): handleCallEnd of the current render
LeaveCall(c) == HandleCallEnd(c, TRUE)

\* mutant: the answer is addressed to the call.from of the moment the signal
\* fires, not to the one answerCall closed over
PeerSignal_ReadsCurrentCall(c, p, k) ==
  LET pr == c.peers[k]
      blob == [by |-> p, k |-> k]
      req == IF pr.init
             THEN CallUserReq(pr.to, blob, pr.from, DefaultName)
             ELSE AnswerCallReq(c.call.from, blob)
  IN [c EXCEPT !.peers[k].signalled = TRUE, !.outbox = Append(@, req)]

\* peer.on('signal') of callUser and of answerCall
PeerSignal(c, p, k) ==
  LET pr == c.peers[k]
      blob == [by |-> p, k |-> k]
      req == IF pr.init
             THEN CallUserReq(pr.to, blob, pr.from, DefaultName)
             ELSE AnswerCallReq(pr.to, blob)
  IN [c EXCEPT !.peers[k].signalled = TRUE, !.outbox = Append(@, req)]

\* peer.on('stream')
PeerStream(c, k) == [c EXCEPT !.userStream = "live"]

\* peer.on('connect')
PeerConnect(c, k) == IF c.peers[k].init THEN [c EXCEPT !.isCalling = FALSE] ELSE c

\* peer.on('error'): simple-peer has destroyed the peer before it emits 'error'
PeerError(c, k) ==
  LET gone == [c EXCEPT !.peers = WithoutPeer(@, k),
                        !.connectionRef = RefWithoutPeer(@, k),
                        !.isCalling = IF c.peers[k].init THEN FALSE ELSE @]
  IN HandleCallEnd(gone, TRUE)

\* VideoPlayer.openVideo: getUserMedia succeeded, setStream(currentStream)
OpenVideo(c) == [c EXCEPT !.stream = "live"]

\* when a peer's events can fire
CanSignal(pr) == ~pr.signalled /\ (pr.init \/ pr.remote # NoSig)
Negotiated(pr) == pr.signalled /\ pr.remote # NoSig

(* --------------------- SpecRelay: the relay alone ---------------------- *)
NoEvent == [ev |-> "none", sender |-> NoId, data |-> Msg("none", NoId, NoSig, NoId, "")]
Event(ev, sender, data) == [ev |-> ev, sender |-> sender, data |-> data]

SrvConnection(id) ==
  /\ RelayConnection(id)
  /\ relayIn' = Event("connection", id, Msg("connection", NoId, NoSig, NoId, ""))
  /\ relayOut' = EmitOnConnection(id)
  /\ UNCHANGED netVars

SrvDisconnect(id) ==
  /\ RelayDisconnect(id)
  /\ relayIn' = Event("disconnect", id, Msg("disconnect", NoId, NoSig, NoId, ""))
  /\ relayOut' = EmitOnDisconnect(id)
  /\ UNCHANGED netVars

\* mutant: the callUser handler records the callee in connectedUsers
SrvCallUser_TracksCallee(sender, data) ==
  /\ sender \in sockets
  /\ relayIn' = Event("callUser", sender, data)
  /\ relayOut' = EmitOnCallUser(sender, data)
  /\ connectedUsers' = connectedUsers \cup {data.to}
  /\ UNCHANGED <<sockets, netVars>>

SrvCallUser(sender, data) ==
  /\ sender \in sockets
  /\ relayIn' = Event("callUser", sender, data)
  /\ relayOut' = EmitOnCallUser(sender, data)
  /\ UNCHANGED <<relayVars, netVars>>

SrvAnswerCall(sender, data) ==
  /\ sender \in sockets
  /\ relayIn' = Event("answerCall", sender, data)
  /\ relayOut' = EmitOnAnswerCall(sender, data)
  /\ UNCHANGED <<relayVars, netVars>>

Init ==
  /\ sockets = {}
  /\ connectedUsers = {}
  /\ relayIn = NoEvent
  /\ relayOut = <<>>
  /\ cl = [p \in Clients |-> InitClient]
  /\ inbox = [p \in Clients |-> <<>>]
  /\ used = [drops |-> 0, calls |-> 0]

RelayNext ==
  \/ \E id \in Ids : SrvConnection(id)
  \/ \E id \in Ids : SrvDisconnect(id)
  \/ \E s \in Ids, to \in Ids, sig \in RelaySignals, from \in Ids \cup {NoId}, n \in Names :
       SrvCallUser(s, CallUserReq(to, sig, from, n))
  \/ \E s \in Ids, to \in Ids, sig \in RelaySignals :
       SrvAnswerCall(s, AnswerCallReq(to, sig))

SpecRelay == Init /\ [][RelayNext]_vars

(* ------------- SpecClient: one participant, any environment ------------ *)
\* Participant "A" with every event its socket, its peers and its user can
\* produce.  The relay reads the outbox at once: after a step the outbox holds
\* the packets that step emitted.
Actor == "A"
\* the actor's connection keeps its id over reconnects (connectionStateRecovery);
\* the other connections are the remaining ids, each with one blob
ActorId == 1
OtherIds == Ids \ {ActorId}
BlobOf(id) == [by |-> "B", k |-> id]

Emitted(c, c2) == SubSeq(c2.outbox, Len(c.outbox) + 1, Len(c2.outbox))

Step(c2) ==
  /\ cl' = [cl EXCEPT ![Actor] = [c2 EXCEPT !.outbox = Emitted(cl[Actor], c2)]]
  /\ UNCHANGED <<relayVars, relayObs, inbox, used>>

\* a call that gets past the checks needs a free Peer slot
HasRoom(c) == Len(c.peers) < MaxPeers
CanCallUser(c, id) ==
  id = NoId \/ c.stream = "null" \/ id = c.me \/ HasRoom(c)
CanAnswerCall(c) ==
  c.stream = "null" \/ c.call.signal = NoSig \/ HasRoom(c)
EffectsPending(c) == FlushEffects(c) # c

EnvConnect(id) ==
  /\ cl[Actor].sid = NoId
  /\ Step(OnConnect(cl[Actor], id))

EnvDisconnect ==
  /\ cl[Actor].sid # NoId
  /\ Step(OnDisconnect(cl[Actor]))

EnvMe ==
  /\ cl[Actor].sid # NoId
  /\ Step(OnMe(cl[Actor], MeMsg(cl[Actor].sid)))

EnvCallUser(m) ==
  /\ cl[Actor].sid # NoId
  /\ Step(OnCallUser(cl[Actor], m))

EnvCallAccepted(m) ==
  /\ cl[Actor].sid # NoId
  /\ Step(OnCallAccepted(cl[Actor], m))

EnvCallEnded(m) ==
  /\ cl[Actor].sid # NoId
  /\ Step(OnCallEnded(cl[Actor], m))

EnvCallError(m) ==
  /\ cl[Actor].sid # NoId
  /\ Step(OnCallError(cl[Actor], m))

UserCallUser(id) ==
  /\ CanCallUser(cl[Actor], id)
  /\ Step(CallUser(cl[Actor], id))

UserAnswerCall ==
  /\ CanAnswerCall(cl[Actor])
  /\ Step(AnswerCall(cl[Actor]))

UserLeaveCall == Step(LeaveCall(cl[Actor]))

UserOpenVideo ==
  /\ cl[Actor].stream = "null"
  /\ Step(OpenVideo(cl[Actor]))

EvPeerSignal(k) ==
  /\ k <= Len(cl[Actor].peers)
  /\ CanSignal(cl[Actor].peers[k])
  /\ Step(PeerSignal(cl[Actor], Actor, k))

EvPeerStream(k) ==
  /\ k <= Len(cl[Actor].peers)
  /\ Negotiated(cl[Actor].peers[k])
  /\ Step(PeerStream(cl[Actor], k))

EvPeerConnect(k) ==
  /\ k <= Len(cl[Actor].peers)
  /\ Negotiated(cl[Actor].peers[k])
  /\ Step(PeerConnect(cl[Actor], k))

EvPeerError(k) ==
  /\ k <= Len(cl[Actor].peers)
  /\ Step(PeerError(cl[Actor], k))

EvEffects ==
  /\ EffectsPending(cl[Actor])
  /\ Step(FlushEffects(cl[Actor]))

ClientNext ==
  \/ EnvConnect(ActorId)
  \/ EnvDisconnect
  \/ EnvMe
  \/ \E from \in OtherIds :
       EnvCallUser(OfferMsg(cl[Actor].sid, BlobOf(from), from, DefaultName))
  \/ \E id \in OtherIds : EnvCallAccepted(CallAcceptedMsg(cl[Actor].sid, BlobOf(id)))
  \/ \E id \in OtherIds : EnvCallEnded(CallEndedMsg(cl[Actor].sid, id))
  \/ EnvCallError(CallErrorMsg(cl[Actor].sid))
  \/ \E id \in Ids \cup {NoId} : UserCallUser(id)
  \/ UserAnswerCall
  \/ UserLeaveCall
  \/ UserOpenVideo
  \/ \E k \in 1..MaxPeers : EvPeerSignal(k)
  \/ \E k \in 1..MaxPeers : EvPeerStream(k)
  \/ \E k \in 1..MaxPeers : EvPeerConnect(k)
  \/ \E k \in 1..MaxPeers : EvPeerError(k)
  \/ EvEffects

SpecClient == Init /\ [][ClientNext]_vars

(* ---------------- Spec: relay, participants and transport -------------- *)
\* One caller and one callee: A places calls, B answers them.  A participant
\* keeps its socket id over reconnects (connectionStateRecovery).
IdOf(p) == IF p = "A" THEN ActorId ELSE ActorId + 1
Callers == {"A"}
Callees == {"B"}

\* the inboxes after the relay has emitted out: each packet goes to the
\* participant whose socket has the id it is addressed to
RECURSIVE Addressed(_, _)
Addressed(out, id) ==
  IF out = <<>> THEN <<>>
  ELSE (IF Head(out).to = id THEN <<Head(out)>> ELSE <<>>) \o Addressed(Tail(out), id)

Posted(box, out) ==
  [q \in Clients |->
     IF cl[q].sid = NoId THEN box[q] ELSE box[q] \o Addressed(out, cl[q].sid)]

Fits(box) == \A q \in Clients : Len(box[q]) <= MaxQueue

\* the participant's step alone
Local(p, c2) ==
  /\ Len(c2.outbox) <= MaxQueue
  /\ cl' = [cl EXCEPT ![p] = c2]
  /\ used' = [used EXCEPT !.calls = IF Len(c2.peers) > Len(cl[p].peers) THEN @ + 1 ELSE @]
  /\ UNCHANGED <<relayVars, relayObs, inbox>>

\* a transport connects: io.on("connection") and the participant's 'connect'
Connect(p) ==
  /\ cl[p].sid = NoId
  /\ RelayConnection(IdOf(p))
  /\ cl' = [cl EXCEPT ![p] = OnConnect(cl[p], IdOf(p))]
  /\ inbox' = [inbox EXCEPT ![p] = EmitOnConnection(IdOf(p))]
  /\ UNCHANGED <<relayObs, used>>

\* a transport is lost: socket.on("disconnect") at the relay, and the
\* packets in flight to and from the participant are gone
Disconnect(p) ==
  /\ cl[p].sid # NoId
  /\ used.drops < MaxDrops
  /\ used' = [used EXCEPT !.drops = @ + 1]
  /\ RelayDisconnect(cl[p].sid)
  /\ LET box == [Posted(inbox, EmitOnDisconnect(cl[p].sid)) EXCEPT ![p] = <<>>]
     IN Fits(box) /\ inbox' = box
  /\ cl' = [cl EXCEPT ![p] = OnDisconnect(cl[p])]
  /\ UNCHANGED relayObs

\* the relay reads the next packet of p's socket and runs its handler
RelayRead(p) ==
  /\ cl[p].sid # NoId
  /\ cl[p].outbox # <<>>
  /\ LET m == Head(cl[p].outbox)
         out == IF m.ev = "callUser" THEN EmitOnCallUser(cl[p].sid, m)
                ELSE EmitOnAnswerCall(cl[p].sid, m)
         box == Posted(inbox, out)
     IN Fits(box) /\ inbox' = box
  /\ cl' = [cl EXCEPT ![p].outbox = Tail(@)]
  /\ UNCHANGED <<relayVars, relayObs, used>>

\* the participant's socket dispatches the next packet to its listener
Dispatch(c, m) ==
  IF m.ev = "me" THEN OnMe(c, m)
  ELSE IF m.ev = "callUser" THEN OnCallUser(c, m)
  ELSE IF m.ev = "callAccepted" THEN OnCallAccepted(c, m)
  ELSE IF m.ev = "callEnded" THEN OnCallEnded(c, m)
  ELSE OnCallError(c, m)

Deliver(p) ==
  /\ inbox[p] # <<>>
  /\ cl' = [cl EXCEPT ![p] = Dispatch(cl[p], Head(inbox[p]))]
  /\ inbox' = [inbox EXCEPT ![p] = Tail(@)]
  /\ UNCHANGED <<relayVars, relayObs, used>>

DoOpenVideo(p) == cl[p].stream = "null" /\ Local(p, OpenVideo(cl[p]))
DoCallUser(p, id) ==
  /\ CanCallUser(cl[p], id)
  /\ used.calls < MaxCalls
  /\ Local(p, CallUser(cl[p], id))
DoAnswerCall(p) ==
  /\ CanAnswerCall(cl[p])
  /\ used.calls < MaxCalls
  /\ Local(p, AnswerCall(cl[p]))
DoLeaveCall(p) == Local(p, LeaveCall(cl[p]))
\* Notifications.handleDecline: the modal of a pending incoming call calls leaveCall
DoDecline(p) ==
  /\ cl[p].call.isReceivingCall
  /\ ~cl[p].callAccepted
  /\ DoLeaveCall(p)
DoPeerSignal(p, k) ==
  /\ k <= Len(cl[p].peers)
  /\ CanSignal(cl[p].peers[k])
  /\ Local(p, PeerSignal(cl[p], p, k))
DoPeerStream(p, k) ==
  /\ k <= Len(cl[p].peers)
  /\ Negotiated(cl[p].peers[k])
  /\ Local(p, PeerStream(cl[p], k))
DoPeerConnect(p, k) ==
  /\ k <= Len(cl[p].peers)
  /\ Negotiated(cl[p].peers[k])
  /\ Local(p, PeerConnect(cl[p], k))
DoPeerError(p, k) ==
  /\ k <= Len(cl[p].peers)
  /\ Local(p, PeerError(cl[p], k))
DoEffects(p) == EffectsPending(cl[p]) /\ Local(p, FlushEffects(cl[p]))

Next ==
  \/ \E p \in Clients : Connect(p)
  \/ \E p \in Clients : Disconnect(p)
  \/ \E p \in Clients : RelayRead(p)
  \/ \E p \in Clients : Deliver(p)
  \/ \E p \in Callers \cup Callees : DoOpenVideo(p)
  \/ \E p \in Callers, id \in Ids : DoCallUser(p, id)
  \/ \E p \in Callees : DoAnswerCall(p)
  \/ \E p \in Callers \cup Callees : DoLeaveCall(p)
  \/ \E p \in Clients, k \in 1..MaxPeers : DoPeerSignal(p, k)
  \/ \E p \in Clients, k \in 1..MaxPeers : DoPeerStream(p, k)
  \/ \E p \in Clients, k \in 1..MaxPeers : DoPeerConnect(p, k)
  \/ \E p \in Clients, k \in 1..MaxPeers : DoPeerError(p, k)
  \/ \E p \in Clients : DoEffects(p)

Spec == Init /\ [][Next]_vars

(* ------------- SpecHappy: a call placed, accepted and kept ------------- *)
\* A calls B once both are connected and hold local media
HappyCall ==
  /\ \A p \in Clients : cl[p].sid # NoId /\ cl[p].stream = "live"
  /\ cl["A"].peers = <<>>
  /\ DoCallUser("A", IdOf("B"))

\* B accepts the incoming call
HappyAnswer ==
  /\ cl["B"].call.isReceivingCall
  /\ cl["B"].peers = <<>>
  /\ DoAnswerCall("B")

HappyNext ==
  \/ \E p \in Clients : Connect(p)
  \/ \E p \in Clients : DoOpenVideo(p)
  \/ HappyCall
  \/ HappyAnswer
  \/ \E p \in Clients : RelayRead(p)
  \/ \E p \in Clients : Deliver(p)
  \/ \E p \in Clients, k \in 1..MaxPeers : DoPeerSignal(p, k)
  \/ \E p \in Clients, k \in 1..MaxPeers : DoPeerStream(p, k)
  \/ \E p \in Clients, k \in 1..MaxPeers : DoPeerConnect(p, k)
  \/ \E p \in Clients : DoEffects(p)

SpecHappy == Init /\ [][HappyNext]_vars /\ WF_vars(HappyNext)

(* ====================== claims about the relay ========================= *)
\* the number of messages of out addressed to connection id
RECURSIVE CountTo(_, _)
CountTo(out, id) ==
  IF out = <<>> THEN 0
  ELSE (IF Head(out).to = id THEN 1 ELSE 0) + CountTo(Tail(out), id)

\* C1: after any sequence of connections and disconnects the relay's
\* connectedUsers holds exactly the ids that connected and have not yet
\* disconnected (the live sockets): no leak, no phantom entry.
C1_TrackedUsersExact == connectedUsers = sockets

\* C1 witness: a connection was dropped while another one stays tracked
C1_Witness ==
  /\ relayIn.ev = "disconnect"
  /\ relayIn.sender \notin connectedUsers
  /\ connectedUsers # {}

\* C2: a callUser whose userToCall is not live yields exactly one callError,
\* to the sender, and nothing to anybody else.
C2_OfferToDeadPeer ==
  (relayIn.ev = "callUser" /\ relayIn.data.to \notin sockets) =>
    /\ Len(relayOut) = 1
    /\ relayOut[1].ev = "callError"
    /\ relayOut[1].to = relayIn.sender
    /\ \A y \in Ids \ {relayIn.sender} : CountTo(relayOut, y) = 0

\* C2 witness: an offer for a dead id was handled while a third connection is live
C2_Witness ==
  /\ relayIn.ev = "callUser"
  /\ relayIn.data.to \notin sockets
  /\ Cardinality(sockets) >= 2

\* C3: a callUser whose userToCall is live is delivered once, to that
\* connection only, with signal, from and name as received; no callError.
C3_OfferForwardedUnchanged ==
  (relayIn.ev = "callUser" /\ relayIn.data.to \in sockets) =>
    /\ Len(relayOut) = 1
    /\ relayOut[1].ev = "callUser"
    /\ relayOut[1].to = relayIn.data.to
    /\ relayOut[1].signal = relayIn.data.signal
    /\ relayOut[1].from = relayIn.data.from
    /\ relayOut[1].name = relayIn.data.name
    /\ \A y \in Ids \ {relayIn.data.to} : CountTo(relayOut, y) = 0

\* C3 witness: a forwarded offer whose from is not the sending connection,
\* with a third connection live
C3_Witness ==
  /\ relayIn.ev = "callUser"
  /\ relayIn.data.to \in sockets
  /\ relayIn.data.to # relayIn.sender
  /\ relayIn.data.from # relayIn.sender
  /\ Cardinality(sockets) = 3

\* C4: an answerCall is forwarded as exactly one callAccepted with the
\* unchanged signal to `to` when `to` is live, and otherwise answered with
\* exactly one callError to the answering connection; nothing else is sent.
C4_AnswerRouted ==
  relayIn.ev = "answerCall" =>
    /\ Len(relayOut) = 1
    /\ IF relayIn.data.to \in sockets
       THEN /\ relayOut[1].ev = "callAccepted"
            /\ relayOut[1].to = relayIn.data.to
            /\ relayOut[1].signal = relayIn.data.signal
       ELSE /\ relayOut[1].ev = "callError"
            /\ relayOut[1].to = relayIn.sender

\* C4 witness: an answer to a dead caller, other connections being live
C4_Witness ==
  /\ relayIn.ev = "answerCall"
  /\ relayIn.data.to \notin sockets
  /\ Cardinality(sockets) >= 2

\* C4 second witness (the forwarding branch)
C4_WitnessForwarded ==
  /\ relayIn.ev = "answerCall"
  /\ relayIn.data.to \in sockets
  /\ relayIn.data.to # relayIn.sender

\* C5: when connection X disconnects, every other connection live at that
\* moment gets exactly one callEnded with disconnectedUserId = X, and X none.
C5_DisconnectBroadcast ==
  relayIn.ev = "disconnect" =>
    /\ \A y \in Ids : CountTo(relayOut, y) = IF y \in sockets THEN 1 ELSE 0
    /\ \A i \in 1..Len(relayOut) :
         relayOut[i].ev = "callEnded" /\ relayOut[i].from = relayIn.sender
    /\ CountTo(relayOut, relayIn.sender) = 0

\* C5 witness: a disconnect with two other connections live
C5_Witness ==
  /\ relayIn.ev = "disconnect"
  /\ Cardinality(sockets) = 2
  /\ Len(relayOut) = 2

(* =================== claims about one participant ====================== *)
\* Idle: not accepted, no pending incoming call, no handle, no remote stream
Idle(c) ==
  /\ ~c.callAccepted
  /\ ~c.call.isReceivingCall
  /\ c.connectionRef = 0
  /\ c.userStream = "null"

\* the call state the claims speak of (the handle is connectionRef and the Peers)
CallState(c) ==
  <<c.callAccepted, c.callEnded, c.isCalling, c.call, c.userStream,
    c.connectionRef, c.peers>>

\* everything of a participant but the packets it has just written
Kept(c) == [c EXCEPT !.outbox = <<>>]

\* C6: a callEnded broadcast delivered to an Idle participant changes none of
\* callAccepted, callEnded, isCalling, call, userStream and the handle.
C6_IdleIgnoresCallEnded ==
  [][ ( /\ Idle(cl[Actor])
        /\ \E id \in OtherIds : EnvCallEnded(CallEndedMsg(cl[Actor].sid, id)) )
      => CallState(cl'[Actor]) = CallState(cl[Actor]) ]_vars

\* C6 witness: an Idle participant to which a callEnded can be delivered, and
\* whose mirrored ref still says "accepted", so that the handler does run the
\* teardown (the delivery leaves this very state)
C6_Witness ==
  /\ Idle(cl[Actor])
  /\ cl[Actor].sid # NoId
  /\ cl[Actor].callAcceptedRef
  /\ cl[Actor].stream = "stopped"

\* C10: callUser(id) with id the participant's own identifier is rejected
\* locally: no handle is created, nothing is sent, isCalling stays as it was
\* (false when no call was being placed); in fact no state changes at all.
C10_SelfCallRejected ==
  [][ UserCallUser(cl[Actor].me)
      => /\ Kept(cl'[Actor]) = Kept(cl[Actor])
         /\ cl'[Actor].outbox = <<>>
         /\ (~cl[Actor].isCalling => ~cl'[Actor].isCalling) ]_vars

\* C10 witness: a connected participant with a camera and room for a handle,
\* not calling: only the id === me test stops callUser(me)
C10_Witness ==
  /\ cl[Actor].me = ActorId
  /\ cl[Actor].sid = ActorId
  /\ cl[Actor].stream = "live"
  /\ cl[Actor].peers = <<>>
  /\ ~cl[Actor].isCalling

\* the peer of the pending or active call: the target of the current handle,
\* else the caller of the pending incoming call, else none
PeerOf(c) ==
  IF c.connectionRef # 0 THEN c.peers[c.connectionRef].to
  ELSE IF c.call.isReceivingCall THEN c.call.from
  ELSE NoId

\* C7: a participant with a pending or active call with peer P ignores a
\* callEnded whose disconnectedUserId is an identifier other than P: the call
\* state is as it was.
C7_UnrelatedCallEndedIgnored ==
  [][ \A id \in OtherIds :
        ( /\ PeerOf(cl[Actor]) # NoId
          /\ id # PeerOf(cl[Actor])
          /\ EnvCallEnded(CallEndedMsg(cl[Actor].sid, id)) )
        => CallState(cl'[Actor]) = CallState(cl[Actor]) ]_vars

\* Active: accepted, a handle present, the remote stream set
Active(c) == c.callAccepted /\ c.connectionRef # 0 /\ c.userStream = "live"

\* back to Idle after a teardown: the handle that was current is destroyed
\* and connectionRef cleared, nothing accepted, placed or pending, no remote
\* stream
TornDown(c, c2) ==
  /\ Idle(c2)
  /\ ~c2.isCalling
  /\ c2.call = NoCall
  /\ c2.peers = WithoutPeer(c.peers, c.connectionRef)

\* C8: a participant in an active call with peer B that is delivered the
\* callEnded of B's disconnect returns to Idle (handle destroyed and cleared,
\* callAccepted and isCalling false, call empty, userStream null), and a
\* second identical callEnded, delivered at once or after the refs have
\* caught up, changes nothing.
C8_PeerDisconnectEndsCall ==
  [][ \A b \in OtherIds :
        ( /\ Active(cl[Actor])
          /\ PeerOf(cl[Actor]) = b
          /\ EnvCallEnded(CallEndedMsg(cl[Actor].sid, b)) )
        => LET m == CallEndedMsg(cl[Actor].sid, b)
               c2 == cl'[Actor]
           IN /\ TornDown(cl[Actor], c2)
              /\ OnCallEnded(c2, m) = c2
              /\ OnCallEnded(FlushEffects(c2), m) = FlushEffects(c2) ]_vars

\* C8 witness: Idle after a teardown that touched no local track, while the
\* refs still show the accepted call and its remote stream: the callEnded
\* handler has ended an active call
C8_Witness ==
  /\ Idle(cl[Actor])
  /\ cl[Actor].callEnded
  /\ cl[Actor].stream = "live"
  /\ cl[Actor].callAcceptedRef
  /\ cl[Actor].userStreamRef = "live"
  /\ cl[Actor].peers = <<>>

(* ===================== claims about the whole system =================== *)
BothActive == \A p \in Clients : Active(cl[p])

\* every answer B has written, and every handle B answers with, targets A
AnswerAddressedToCaller ==
  /\ \A i \in 1..Len(cl["B"].outbox) :
        cl["B"].outbox[i].ev = "answerCall" => cl["B"].outbox[i].to = IdOf("A")
  /\ \A k \in 1..Len(cl["B"].peers) :
        ~cl["B"].peers[k].init => cl["B"].peers[k].to = IdOf("A")

\* C9: happy path: A and B connected and holding local media, A calls B, the
\* relay forwards the offer, B accepts, the relay forwards the answer, both
\* handles report a remote stream, and nothing is dropped, left or failed:
\* both end up active for good, and B's answer is addressed to A.
C9_HappyPath == <>[]BothActive /\ []AnswerAddressedToCaller

\* C9 witness: both active, every packet delivered, A's handle fed B's answer
C9_Witness ==
  /\ BothActive
  /\ \A p \in Clients : inbox[p] = <<>> /\ cl[p].outbox = <<>>
  /\ cl["A"].peers[1].remote = [by |-> "B", k |-> 1]
  /\ cl["B"].peers[1].remote = [by |-> "A", k |-> 1]

(* ============== further claims about one participant =================== *)
\* C11: every negotiation handle a participant creates is destroyed exactly
\* once: no live handle is ever dropped, i.e. every Peer that has not been
\* destroyed is the one connectionRef.current holds (none was overwritten in
\* connectionRef, none is left behind once connectionRef is null).
C11_EveryHandleDestroyed ==
  \A k \in 1..Len(cl[Actor].peers) : k = cl[Actor].connectionRef

\* the state handleCallEnd leaves behind
Ended(c) ==
  /\ c.callEnded
  /\ ~c.callAccepted
  /\ ~c.isCalling
  /\ c.connectionRef = 0
  /\ c.call = NoCall
  /\ c.userStream = "null"

\* C12: a second teardown in a row (hangup, callEnded broadcast or negotiation
\* error on a participant that has just been torn down) destroys no handle
\* through connectionRef again and does not stop local tracks that were
\* already stopped.
C12_SecondTeardownReleasesNothing ==
  [][ ( /\ Ended(cl[Actor])
        /\ \/ UserLeaveCall
           \/ \E id \in OtherIds : EnvCallEnded(CallEndedMsg(cl[Actor].sid, id))
           \/ \E k \in 1..MaxPeers : EvPeerError(k) )
      => /\ cl'[Actor].connectionRef = 0
         /\ Len(cl'[Actor].peers) >= Len(cl[Actor].peers) - 1
         /\ (cl[Actor].stream # "live" => cl'[Actor].stream = cl[Actor].stream) ]_vars

\* C13: an incoming offer that arrives while the participant has a pending
\* incoming offer or a call in progress does not replace the recorded
\* caller (call.from) and offer signal.
C13_BusyOfferRejected ==
  [][ \A from \in OtherIds :
        ( /\ \/ cl[Actor].call.isReceivingCall
              \/ cl[Actor].callAccepted
              \/ cl[Actor].connectionRef # 0
          /\ EnvCallUser(OfferMsg(cl[Actor].sid, BlobOf(from), from, DefaultName)) )
        => /\ cl'[Actor].call.from = cl[Actor].call.from
           /\ cl'[Actor].call.signal = cl[Actor].call.signal ]_vars

\* C14: a transport reconnect ('connect' after a 'disconnect') while a call
\* is pending or active ends the call: the handle is destroyed and the call
\* state reset.
C14_ReconnectEndsCall ==
  [][ ( /\ cl[Actor].me # NoId
        /\ PeerOf(cl[Actor]) # NoId
        /\ EnvConnect(ActorId) )
      => /\ Idle(cl'[Actor])
         /\ cl'[Actor].peers = DestroyCurrent(cl[Actor]).peers ]_vars

\* C15: after leaveCall, from any call state, the participant is Idle: the
\* handle connectionRef held is destroyed and connectionRef is null,
\* callAccepted and isCalling are false, call is empty, userStream is null.
C15_HangupToIdle ==
  [][ UserLeaveCall
      => /\ Idle(cl'[Actor])
         /\ ~cl'[Actor].isCalling
         /\ cl'[Actor].call = NoCall
         /\ cl'[Actor].peers = DestroyCurrent(cl[Actor]).peers ]_vars

\* C15 witness: Idle with the local tracks stopped by the teardown, while the
\* refs still show the accepted call and its remote stream
C15_Witness ==
  /\ Idle(cl[Actor])
  /\ cl[Actor].callEnded
  /\ cl[Actor].stream = "stopped"
  /\ cl[Actor].callAcceptedRef
  /\ cl[Actor].userStreamRef = "live"
  /\ cl[Actor].peers = <<>>

\* C16: leaveCall during a pending or active call, on a connected
\* participant, writes a teardown notice addressed to the peer of the call.
C16_HangupNotifiesPeer ==
  [][ ( /\ cl[Actor].sid # NoId
        /\ PeerOf(cl[Actor]) # NoId
        /\ UserLeaveCall )
      => \E i \in 1..Len(cl'[Actor].outbox) :
           cl'[Actor].outbox[i].to = PeerOf(cl[Actor]) ]_vars

\* C17: without a local stream callUser and answerCall fail locally: no
\* handle is created, nothing is sent, callAccepted and isCalling (and
\* everything else) stay as they were.
C17_NoMediaNoCall ==
  [][ ( /\ cl[Actor].stream = "null"
        /\ \/ UserAnswerCall
           \/ \E id \in Ids \cup {NoId} : UserCallUser(id) )
      => /\ Kept(cl'[Actor]) = Kept(cl[Actor])
         /\ cl'[Actor].outbox = <<>> ]_vars

\* C17 witness: a connected participant without camera, with a pending
\* incoming offer and room for a handle: only the !stream test stops
\* answerCall and callUser
C17_Witness ==
  /\ cl[Actor].stream = "null"
  /\ cl[Actor].sid # NoId
  /\ cl[Actor].call.isReceivingCall
  /\ cl[Actor].peers = <<>>
  /\ ~cl[Actor].callAccepted

\* C18: after a callError is delivered to a participant whose current handle
\* has sent its offer or answer, the participant is Idle: the handle is
\* destroyed and cleared, isCalling and callAccepted are false.
C18_CallErrorToIdle ==
  [][ ( /\ cl[Actor].sid # NoId
        /\ cl[Actor].connectionRef # 0
        /\ cl[Actor].peers[cl[Actor].connectionRef].signalled
        /\ EnvCallError(CallErrorMsg(cl[Actor].sid)) )
      => /\ cl'[Actor].connectionRef = 0
         /\ cl'[Actor].peers = DestroyCurrent(cl[Actor]).peers
         /\ ~cl'[Actor].isCalling
         /\ ~cl'[Actor].callAccepted ]_vars

\* C19: a new call starts from fresh state: whenever the participant holds
\* the handle of a call it placed, or has accepted an incoming call and holds
\* its handle, callEnded is false, whatever happened to earlier calls.
C19_FreshCallState ==
  LET c == cl[Actor]
  IN (c.connectionRef # 0 /\ (c.peers[c.connectionRef].init \/ c.callAccepted))
       => ~c.callEnded

\* what the call state itself says about being in a call
InCallNow(c) ==
  \/ c.callAccepted
  \/ c.call.isReceivingCall
  \/ c.connectionRef # 0
  \/ c.userStream # "null"

\* C20: whenever a callEnded can be delivered (the socket is connected), the
\* handler's isInCall test, read from the mirrored refs, decides as the call
\* state of that moment would.
C20_CallEndedReadsCurrentState ==
  cl[Actor].sid # NoId => (IsInCall(cl[Actor]) = InCallNow(cl[Actor]))

\* C22: receiving an incoming offer only records it in call: no handle is
\* created, nothing is sent to the relay, and nothing else changes.
C22_OfferOnlyRecorded ==
  [][ \A from \in OtherIds :
        EnvCallUser(OfferMsg(cl[Actor].sid, BlobOf(from), from, DefaultName))
        => /\ cl'[Actor].call = [isReceivingCall |-> TRUE, from |-> from,
                                 name |-> DefaultName, signal |-> BlobOf(from)]
           /\ cl'[Actor].peers = cl[Actor].peers
           /\ cl'[Actor].connectionRef = cl[Actor].connectionRef
           /\ cl'[Actor].outbox = <<>>
           /\ [Kept(cl'[Actor]) EXCEPT !.call = NoCall]
                = [Kept(cl[Actor]) EXCEPT !.call = NoCall] ]_vars

\* C22 witness: a connected participant with its camera on and a recorded
\* offer, without any handle and not accepted
C22_Witness ==
  /\ cl[Actor].sid # NoId
  /\ cl[Actor].stream = "live"
  /\ cl[Actor].call.isReceivingCall
  /\ cl[Actor].peers = <<>>
  /\ ~cl[Actor].callAccepted
  /\ ~cl[Actor].callEnded

\* C24: whenever callAccepted is true the participant holds a live handle
\* (connectionRef is not null).
C24_AcceptedHasHandle ==
  cl[Actor].callAccepted => cl[Actor].connectionRef # 0

\* C25: the handle of an initiator is fed only an answer produced by the
\* connection it addressed its offer to.
C25_AnswerFromCallee ==
  \A k \in 1..Len(cl[Actor].peers) :
    LET pr == cl[Actor].peers[k]
    IN (pr.init /\ pr.remote # NoSig) => pr.remote = BlobOf(pr.to)

\* C27: the answer an answering handle emits is addressed to the sender of
\* the very offer that handle was fed, also when another offer has replaced
\* the recorded call in between.
C27_AnswerToOfferSender ==
  [][ \A k \in 1..MaxPeers :
        ( /\ k <= Len(cl[Actor].peers)
          /\ ~cl[Actor].peers[k].init
          /\ EvPeerSignal(k) )
        => /\ Len(cl'[Actor].outbox) = 1
           /\ cl'[Actor].outbox[1].ev = "answerCall"
           /\ BlobOf(cl'[Actor].outbox[1].to) = cl[Actor].peers[k].offer ]_vars

\* C27 witness: an answer has just been emitted while the recorded call is
\* already that of another caller
C27_Witness ==
  /\ Len(cl[Actor].outbox) = 1
  /\ cl[Actor].outbox[1].ev = "answerCall"
  /\ cl[Actor].call.isReceivingCall
  /\ cl[Actor].call.from # cl[Actor].outbox[1].to

\* C28: whenever isCalling is true the participant holds a live handle
\* created as initiator.
C28_CallingHasHandle ==
  cl[Actor].isCalling =>
    /\ cl[Actor].connectionRef # 0
    /\ cl[Actor].peers[cl[Actor].connectionRef].init

\* C28 witness: calling again after an earlier call was torn down and while
\* an incoming offer is recorded
C28_Witness ==
  /\ cl[Actor].isCalling
  /\ cl[Actor].call.isReceivingCall
  /\ cl[Actor].stream = "stopped"
  /\ cl[Actor].connectionRef # 0

\* C29: a call is started or answered with live local media only: callUser
\* and answerCall create a handle only from a stream whose tracks have not
\* been stopped.
C29_HandleFromLiveMedia ==
  [][ ( /\ \/ UserAnswerCall
           \/ \E id \in Ids \cup {NoId} : UserCallUser(id)
        /\ Len(cl'[Actor].peers) > Len(cl[Actor].peers) )
      => cl[Actor].stream = "live" ]_vars

\* C30: the teardown a callEnded broadcast triggers does what an explicit
\* hangup does from the same state: handle destroyed, tracks of the current
\* local and remote stream stopped, call state reset.
C30_CallEndedLikeHangup ==
  [][ ( /\ IsInCall(cl[Actor])
        /\ \E id \in OtherIds : EnvCallEnded(CallEndedMsg(cl[Actor].sid, id)) )
      => Kept(cl'[Actor]) = Kept(LeaveCall(cl[Actor])) ]_vars

(* ==================== further claims about the relay =================== *)
\* C21: the relay keeps no call-level state: handling a callUser or an
\* answerCall leaves the tracked users (and the live connections) as they
\* were, and what it emits is fixed by the message and the live connections
\* alone: the forward to `to` when `to` is live, a callError to the sender
\* when not, whatever was offered or answered before.
C21_RelayStateless ==
  [][ /\ \A s \in Ids, to \in Ids, sig \in RelaySignals, from \in Ids \cup {NoId}, n \in Names :
           SrvCallUser(s, CallUserReq(to, sig, from, n))
           => /\ connectedUsers' = connectedUsers
              /\ sockets' = sockets
              /\ relayOut' = IF to \in sockets
                              THEN <<Msg("callUser", to, sig, from, n)>>
                              ELSE <<Msg("callError", s, NoSig, NoId, "")>>
      /\ \A s \in Ids, to \in Ids, sig \in RelaySignals :
           SrvAnswerCall(s, AnswerCallReq(to, sig))
           => /\ connectedUsers' = connectedUsers
              /\ sockets' = sockets
              /\ relayOut' = IF to \in sockets
                              THEN <<Msg("callAccepted", to, sig, NoId, "")>>
                              ELSE <<Msg("callError", s, NoSig, NoId, "")>> ]_vars

\* C21 witness: an answer was forwarded after other events, all three
\* connections being tracked
C21_Witness ==
  /\ relayIn.ev = "answerCall"
  /\ Len(relayOut) = 1
  /\ relayOut[1].ev = "callAccepted"
  /\ Cardinality(connectedUsers) = 3

\* C26: the `from` of every offer the relay delivers is the identifier of
\* the connection that sent it to the relay.
C26_OfferFromIsSender ==
  ( /\ relayIn.ev = "callUser"
    /\ Len(relayOut) = 1
    /\ relayOut[1].ev = "callUser" )
  => relayOut[1].from = relayIn.sender

\* C31: once the relay has broadcast callEnded for X, X is not live for
\* routing until it connects again: after the disconnect handler X is neither
\* registered nor tracked, and every callUser or answerCall the relay handles
\* is forwarded exactly when its target is tracked and is answered with a
\* callError to the sender when it is not.
C31_DeadAfterBroadcast ==
  /\ relayIn.ev = "disconnect" =>
       (relayIn.sender \notin sockets /\ relayIn.sender \notin connectedUsers)
  /\ relayIn.ev \in {"callUser", "answerCall"} =>
       /\ Len(relayOut) = 1
       /\ IF relayIn.data.to \in connectedUsers
          THEN /\ relayOut[1].ev # "callError"
               /\ relayOut[1].to = relayIn.data.to
          ELSE relayOut[1] = Msg("callError", relayIn.sender, NoSig, NoId, "")

\* C31 witness: an offer to an untracked identifier was refused while the
\* sender is the only connection left
C31_Witness ==
  /\ relayIn.ev = "callUser"
  /\ relayIn.data.to \notin connectedUsers
  /\ connectedUsers = {relayIn.sender}
  /\ relayOut[1].ev = "callError"

(* ================= further claims about the whole system =============== *)
\* C23: when the callee declines the incoming call of a caller that is
\* connected and still calling, the callee's call state is reset and a
\* notice for the caller is written to the relay, so that the caller can
\* leave its calling state.
C23_DeclineNotifiesCaller ==
  [][ ( /\ cl["B"].sid # NoId
        /\ cl["B"].call.from = IdOf("A")
        /\ cl["A"].sid # NoId
        /\ cl["A"].isCalling
        /\ cl["A"].connectionRef # 0
        /\ DoDecline("B") )
      => /\ cl'["B"].call = NoCall
         /\ Len(cl'["B"].outbox) > Len(cl["B"].outbox)
         /\ cl'["B"].outbox[Len(cl'["B"].outbox)].to = IdOf("A") ]_vars

(* ------------- SpecHangup: a hangup during the active call ------------- *)
\* one party hangs up while both are active and connected
Hangup(p) ==
  /\ \A q \in Clients : Active(cl[q]) /\ cl[q].sid # NoId
  /\ DoLeaveCall(p)

HangupNext ==
  \/ HappyNext
  \/ \E p \in Clients : Hangup(p)

\* what the code and the transport do by themselves happens eventually; a
\* hangup is the user's choice
SpecHangup == Init /\ [][HangupNext]_vars /\ WF_vars(HappyNext)

\* p has hung up locally while q is still active, both connected
HungUpOn(p, q) ==
  /\ cl[p].callEnded
  /\ ~Active(cl[p])
  /\ Active(cl[q])
  /\ cl[p].sid # NoId
  /\ cl[q].sid # NoId

\* C32: call membership stays symmetric: when one party of an active call
\* hangs up locally and both stay connected, the other party eventually
\* leaves the active state too.
C32_HangupReachesPeer ==
  /\ HungUpOn("A", "B") ~> ~Active(cl["B"])
  /\ HungUpOn("B", "A") ~> ~Active(cl["A"])

====
